---- MODULE Spec2Model ----
(***************************************************************************)
(* A state-machine model of AdvancedFileManager (src/script.js): the       *)
(* in-memory file store, the ingestion pipeline (file picker and           *)
(* drag-drop), the confirmation modal, selection, search and the           *)
(* drag-drop reorder of the list view.                                     *)
(*                                                                         *)
(* Strings are sequences of one-character strings, so that trimming,       *)
(* lower-casing, substring search and the reserved-character tests are     *)
(* computed the way the code computes them.                                *)
(***************************************************************************)
EXTENDS Integers, Sequences, FiniteSets, TLC

VARIABLES
  files,              \* this.files: the ordered store of records
  isProcessing,       \* this.isProcessing
  processingQueue,    \* this.processingQueue (never written after construction)
  batches,            \* the handleFileSelect invocations suspended at an await
  drop,               \* the handleDrop collection in progress (entry callbacks)
  lastId,             \* the largest id handed out so far (Date.now() + Math.random())
  selectedFiles,      \* this.selectedFiles
  confirmModal,       \* the confirmation modal and the onConfirm closure bound to it
  searchTerm,         \* this.searchTerm
  searchMatches,      \* this.searchMatches
  currentMatchIndex,  \* this.currentMatchIndex
  searchDebounce,     \* the pending debounce timer of handleSearch
  searchNavShown,     \* searchNav.style.display = "flex"
  dom,                \* the file blocks of the list view as last rendered
  currentView,        \* this.currentView
  useRelativePaths,   \* this.useRelativePaths
  relativePathToggle, \* the checked state of the relativePathToggle checkbox
  tree,               \* the tree of the tree view as last built
  draggedIndex,       \* this.draggedIndex
  draggedElement,     \* this.draggedElement
  moveLog,            \* history of reorders (observation only)
  lastOp              \* the handler that ran last and what it reported (observation only)

vars == <<files, isProcessing, processingQueue, batches, drop, lastId,
          selectedFiles, confirmModal, searchTerm, searchMatches,
          currentMatchIndex, searchDebounce, searchNavShown, dom,
          currentView, useRelativePaths, relativePathToggle, tree,
          draggedIndex, draggedElement, moveLog, lastOp>>

viewVars == <<currentView, useRelativePaths, relativePathToggle, tree>>

-----------------------------------------------------------------------------
(* Bounds of the model *)

\* the longest FileList handed to handleFileSelect by the picker
MaxBatchLen == 2
\* the number of records created in one session
MaxId == 3
\* the longest store the application is loaded with when a specification
\* starts from a loaded store
MaxLoaded == 3

-----------------------------------------------------------------------------
(* Characters and strings *)

TAB == "\t"

\* String.prototype.toLowerCase on one character of the alphabet used here
LowerChar(c) ==
  CASE c = "A" -> "a"
    [] c = "B" -> "b"
    [] c = "C" -> "c"
    [] OTHER -> c

\* String.prototype.toLowerCase
ToLowerCase(s) == [k \in 1..Len(s) |-> LowerChar(s[k])]

\* s.substring(from) with a 0-based start; a negative start counts as 0
SubstringFrom(s, from) ==
  LET f == IF from < 0 THEN 0 ELSE from
  IN  IF f >= Len(s) THEN <<>> ELSE SubSeq(s, f + 1, Len(s))

\* does term occur in text at the 0-based offset k
OccursAt(text, term, k) ==
  /\ k >= 0
  /\ k + Len(term) <= Len(text)
  /\ \A j \in 1..Len(term) : text[k + j] = term[j]

\* text.indexOf(term, from): the first 0-based offset >= from, or -1
IndexOfFrom(text, term, from) ==
  LET hits == {k \in from..Len(text) : OccursAt(text, term, k)}
  IN  IF hits = {} THEN -1 ELSE CHOOSE k \in hits : \A h \in hits : k <= h

\* text.includes(term)
Includes(text, term) == IndexOfFrom(text, term, 0) # -1

\* s.lastIndexOf(c) for a single character, 0-based, -1 when absent
LastIndexOf(s, c) ==
  LET hits == {k \in 1..Len(s) : s[k] = c}
  IN  IF hits = {} THEN -1 ELSE (CHOOSE k \in hits : \A h \in hits : k >= h) - 1

\* s.endsWith(suffix)
EndsWith(s, suffix) ==
  /\ Len(suffix) <= Len(s)
  /\ OccursAt(s, suffix, Len(s) - Len(suffix))

\* the characters String.prototype.trim removes, within the alphabet used here
WhiteSpace == {" ", TAB}

\* String.prototype.trim
RECURSIVE TrimLeft(_)
TrimLeft(s) ==
  IF s # <<>> /\ Head(s) \in WhiteSpace THEN TrimLeft(Tail(s)) ELSE s

RECURSIVE TrimRight(_)
TrimRight(s) ==
  IF s # <<>> /\ s[Len(s)] \in WhiteSpace
    THEN TrimRight(SubSeq(s, 1, Len(s) - 1))
    ELSE s

Trim(s) == TrimRight(TrimLeft(s))

\* the control characters \x00-\x1f, within the alphabet used here
ControlChars == {TAB}

\* the characters of /[<>:"/\\|?*]/
ReservedChars == {"<", ">", ":", "\"", "/", "\\", "|", "?", "*"}

\* /[<>:"/\\|?*\x00-\x1f]/.test(name), the name test of handleFileSelect
InvalidCharsIngest(name) ==
  \E k \in 1..Len(name) : name[k] \in ReservedChars \cup ControlChars

-----------------------------------------------------------------------------
(* MIME types *)

\* the allowedTypes set of handleFileSelect
allowedTypes ==
  {"text/plain", "text/html", "text/css", "text/javascript",
   "application/json", "text/markdown", "text/xml", "text/csv",
   "image/jpeg", "image/png", "image/gif", "image/svg+xml",
   "video/mp4", "audio/mp3", "application/pdf"}

\* 50 * 1024 * 1024
maxFileSize == 52428800

\* the textExtensions list of isTextFile
textExtensions ==
  {<<".", "t", "x", "t">>, <<".", "m", "d">>, <<".", "j", "s">>,
   <<".", "t", "s">>, <<".", "j", "s", "x">>, <<".", "t", "s", "x">>,
   <<".", "c", "s", "s">>, <<".", "s", "c", "s", "s">>,
   <<".", "h", "t", "m", "l">>, <<".", "x", "m", "l">>,
   <<".", "j", "s", "o", "n">>, <<".", "y", "a", "m", "l">>,
   <<".", "y", "m", "l">>, <<".", "p", "y">>, <<".", "j", "a", "v", "a">>,
   <<".", "c", "p", "p">>, <<".", "c">>, <<".", "p", "h", "p">>,
   <<".", "r", "b">>, <<".", "g", "o">>, <<".", "s", "q", "l">>,
   <<".", "s", "h">>}

\* isTextFile(filename)
isTextFile(filename) ==
  LET lower == ToLowerCase(filename)
      ext == SubstringFrom(lower, LastIndexOf(filename, "."))
  IN  ext \in textExtensions

\* type.startsWith("image/"), "video/", "audio/" over the types that occur
StartsWithImage(type) ==
  type \in {"image/jpeg", "image/jpg", "image/png", "image/gif",
            "image/svg+xml", "image/webp"}
StartsWithVideo(type) == type \in {"video/mp4", "video/webm", "video/ogg"}
StartsWithAudio(type) ==
  type \in {"audio/mp3", "audio/wav", "audio/ogg", "audio/mpeg"}

\* isBinaryFile(type); no type that occurs here contains "binary"
isBinaryFile(type) ==
  IF type = "" THEN FALSE
  ELSE type \in {"application/pdf", "application/zip",
                 "application/x-rar-compressed", "application/x-7z-compressed",
                 "application/vnd.ms-excel",
                 "application/vnd.openxmlformats-officedocument.spreadsheetml.sheet",
                 "application/octet-stream"}

-----------------------------------------------------------------------------
(* The files the user can hand to the application *)

NameAC == <<"a", ".", "c">>
NameBC == <<"B", ".", "c">>
NameEC == <<"e", ".", "c">>
NameD  == <<"d">>
NameE  == <<"e">>

\* a File object: relativePath is <<>> until collectEntryFiles sets it
FileA0 == [name |-> NameAC, size |-> 1, type |-> "text/plain", lastModified |-> 0,
           relativePath |-> <<>>, text |-> <<"a">>]
\* a copy of FileA0 saved half a second later
FileA5 == [name |-> NameAC, size |-> 1, type |-> "text/plain", lastModified |-> 500,
           relativePath |-> <<>>, text |-> <<"a">>]
\* a source file the browser reports no MIME type for
FileB  == [name |-> NameBC, size |-> 2, type |-> "", lastModified |-> 0,
           relativePath |-> <<>>, text |-> <<"a", "b">>]
\* an empty file
FileE  == [name |-> NameEC, size |-> 0, type |-> "text/plain", lastModified |-> 0,
           relativePath |-> <<>>, text |-> <<>>]

\* an image; FileReader.readAsDataURL gives a data: URL
FileImg == [name |-> <<"c", ".", "p", "n", "g">>, size |-> 3, type |-> "image/png",
            lastModified |-> 0, relativePath |-> <<>>,
            text |-> <<"d", "a", "t", "a", ":", "c">>]

\* a PDF; FileReader.readAsArrayBuffer gives its bytes, not a string
FilePdf == [name |-> <<"A", ".", "p", "d", "f">>, size |-> 2, type |-> "application/pdf",
            lastModified |-> 0, relativePath |-> <<>>, text |-> <<"a", "c">>]

\* a source file whose name and text repeat a letter
FileRep == [name |-> <<"a", "a", "a", ".", "c">>, size |-> 4, type |-> "",
            lastModified |-> 0, relativePath |-> <<>>, text |-> <<"a", "a", "a", "a">>]

\* FileA0 saved a full second later
FileA1s == [FileA0 EXCEPT !.lastModified = 1000]
\* a file one byte over the size limit (its text is not modelled)
FileBig == [name |-> <<"b", ".", "c">>, size |-> maxFileSize + 1, type |-> "text/plain",
            lastModified |-> 0, relativePath |-> <<>>, text |-> <<"b">>]
\* a file of exactly the size limit
FileMax == [FileBig EXCEPT !.size = maxFileSize]

PickerFiles == {FileA0, FileA5, FileB, FileE}

\* the files of the batches whose validation is looked at
ValidationFiles ==
  {FileA0, FileA5, FileA1s, FileE, FileBig, FileMax,
   \* FileA0 with one more character
   [FileA0 EXCEPT !.size = 2, !.text = <<"a", "a">>],
   \* a program: neither an allowed MIME type nor a text extension
   [FileA0 EXCEPT !.name = <<"a", ".", "e", "x", "e">>, !.type = "application/x-msdownload"],
   \* a text file whose name holds a reserved character
   [FileA0 EXCEPT !.name = <<"a", "?", "c">>],
   \* an empty program with a reserved character in its name
   [FileA0 EXCEPT !.name = <<"?", ".", "e", "x", "e">>, !.size = 0,
                  !.type = "application/x-msdownload", !.text = <<>>]}

\* the sequences of at most n distinct elements of S
RECURSIVE SeqsUpTo(_, _)
SeqsUpTo(S, n) ==
  IF n = 0 THEN {<<>>}
  ELSE LET shorter == SeqsUpTo(S, n - 1)
       IN  shorter \cup UNION {{Append(q, x) : x \in {y \in S : \A j \in 1..Len(q) : q[j] # y}} :
                                q \in shorter}

\* the FileLists a change event of the file or folder input can carry
PickerBatches == SeqsUpTo(PickerFiles, MaxBatchLen)

ValidationBatches == SeqsUpTo(ValidationFiles, MaxBatchLen)

-----------------------------------------------------------------------------
(* handleFileSelect: validation *)

Abs(x) == IF x < 0 THEN -x ELSE x

\* the isDuplicate test against this.files
isDuplicate_inclusive(file, store) ==
  \E k \in 1..Len(store) :
    /\ store[k].name = file.name
    /\ store[k].size = file.size
    /\ Abs(store[k].lastModified - file.lastModified) <= 1000
isDuplicate(file, store) ==
  \E k \in 1..Len(store) :
    /\ store[k].name = file.name
    /\ store[k].size = file.size
    /\ Abs(store[k].lastModified - file.lastModified) < 1000

\* the tests of the validation loop, in the order of the code;
\* "ok" when the file is pushed to validFiles
Validate_noCeiling(file, store) ==
  IF file.size = 0 THEN "Empty file"
  ELSE IF file.type \notin allowedTypes /\ ~isTextFile(file.name)
    THEN "Unsupported file type"
  ELSE IF isDuplicate(file, store) THEN "File already exists"
  ELSE IF InvalidCharsIngest(file.name) THEN "Invalid characters in filename"
  ELSE "ok"
Validate(file, store) ==
  IF file.size = 0 THEN "Empty file"
  ELSE IF file.size > maxFileSize THEN "File too large"
  ELSE IF file.type \notin allowedTypes /\ ~isTextFile(file.name)
    THEN "Unsupported file type"
  ELSE IF isDuplicate(file, store) THEN "File already exists"
  ELSE IF InvalidCharsIngest(file.name) THEN "Invalid characters in filename"
  ELSE "ok"

\* validFiles after the validation loop
validFiles(fileArray, store) ==
  SelectSeq(fileArray, LAMBDA f : Validate(f, store) = "ok")

\* errors after the validation loop (the reasons, in order)
validationErrors(fileArray, store) ==
  LET rejected == SelectSeq(fileArray, LAMBDA f : Validate(f, store) # "ok")
  IN  [k \in 1..Len(rejected) |-> Validate(rejected[k], store)]

\* what the validation loop decides for each file of fileArray: "ok" for a
\* file pushed to validFiles, else the reason pushed to errors
Report(fileArray, store) ==
  [files |-> fileArray,
   reasons |-> [k \in 1..Len(fileArray) |-> Validate(fileArray[k], store)],
   errors |-> validationErrors(fileArray, store)]

-----------------------------------------------------------------------------
(* Rendering *)

\* the filter of renderFiles
MatchesFilter(file, term) ==
  \/ Includes(ToLowerCase(file.name), term)
  \/ file.contentIsString /\ Includes(ToLowerCase(file.content), term)

\* createFileContentDisplay(file) emits a content-textarea element only in its
\* isHTML branch and in its final (text) branch
HasTextarea_always(file) == TRUE
HasTextarea(file) ==
  \/ file.isHTML
  \/ ~(file.isImage \/ file.isVideo \/ file.isAudio) /\ ~file.isBinary

\* the file blocks renderFiles leaves in the container (list view):
\* block k carries data-file-id = result[k].id and data-index = k - 1
renderFiles(store, term) ==
  IF Len(store) = 0 THEN <<>>
  ELSE LET filteredFiles ==
             IF term # <<>> THEN SelectSeq(store, LAMBDA f : MatchesFilter(f, term))
             ELSE store
       IN  [k \in 1..Len(filteredFiles) |->
              [id |-> filteredFiles[k].id, textarea |-> HasTextarea(filteredFiles[k])]]

\* assigning innerHTML replaces every block: a block held in
\* this.draggedElement is no longer in the document
DetachDragged(el) == IF el = "attached" THEN "detached" ELSE el

\* the filteredFiles of renderFiles
Filtered(store, term) ==
  IF term # <<>> THEN SelectSeq(store, LAMBDA f : MatchesFilter(f, term)) ELSE store

\* path.split("/")
RECURSIVE Split(_)
Split(path) ==
  LET cut == {k \in 1..Len(path) : path[k] = "/"}
  IN  IF cut = {} THEN <<path>>
      ELSE LET first == CHOOSE k \in cut : \A h \in cut : k <= h
           IN  <<SubSeq(path, 1, first - 1)>> \o Split(SubSeq(path, first + 1, Len(path)))

\* A tree is the set of its nodes, each under the segments that lead to it
\* from the root: tree[p1][p2]...[pk] is the node of path <<p1, ..., pk>>.
\* A leaf is { __file: file, __isFile: true } and keeps the id of its file; a
\* node made on the way to a leaf is {}.  `order` is the number of nodes made
\* before it: the keys of an object are enumerated in the order they were
\* set (names that are array indices, which come first, are not among the
\* inputs).
HasNode_never(t, path) == FALSE
HasNode(t, path) == \E n \in t : n.path = path

\* the parts.forEach of buildFileTree from part k on: `if (!current[part])`
\* makes the node, and an existing one, leaf or not, is entered as it is (part
\* names that every object has, such as "constructor", and the leaf's own
\* "__file" and "__isFile" are not among the inputs)
RECURSIVE AddParts(_, _, _, _)
AddParts(t, parts, k, file) ==
  IF k > Len(parts) THEN t
  ELSE LET path == SubSeq(parts, 1, k)
           node == [path |-> path, isFile |-> (k = Len(parts)),
                    fileId |-> IF k = Len(parts) THEN file.id ELSE 0,
                    order |-> Cardinality(t)]
           next == IF HasNode(t, path) THEN t ELSE t \cup {node}
       IN  AddParts(next, parts, k + 1, file)

\* the path buildFileTree splits
TreePath(file, rel) == IF rel THEN file.relativePath ELSE file.name

\* buildFileTree(files): files.forEach over an empty tree
RECURSIVE BuildFrom(_, _, _)
BuildFrom(t, fileList, rel) ==
  IF fileList = <<>> THEN t
  ELSE BuildFrom(AddParts(t, Split(TreePath(Head(fileList), rel)), 1, Head(fileList)),
                 Tail(fileList), rel)

buildFileTree_names(fileList, rel) == BuildFrom({}, fileList, FALSE)
buildFileTree(fileList, rel) == BuildFrom({}, fileList, rel)

\* the rank of a character in the collation of localeCompare, for the
\* alphabet used here: punctuation before letters, letters by their lower
\* case form
Collation(c) ==
  CASE LowerChar(c) = "." -> 1
    [] LowerChar(c) = "?" -> 2
    [] LowerChar(c) = "a" -> 3
    [] LowerChar(c) = "b" -> 4
    [] LowerChar(c) = "c" -> 5
    [] LowerChar(c) = "d" -> 6
    [] LowerChar(c) = "e" -> 7
    [] OTHER -> 8

\* a.localeCompare(b) < 0: the first difference of letters decides, else the
\* shorter string comes first, else the first difference of case, lower case
\* first
LocaleBefore(a, b) ==
  LET n == IF Len(a) < Len(b) THEN Len(a) ELSE Len(b)
      differ == {k \in 1..n : Collation(a[k]) # Collation(b[k])}
      cased == {k \in 1..n : a[k] # b[k]}
  IN  IF differ # {}
        THEN LET k == CHOOSE i \in differ : \A j \in differ : i <= j
             IN  Collation(a[k]) < Collation(b[k])
        ELSE IF Len(a) # Len(b) THEN Len(a) < Len(b)
        ELSE IF cased # {}
          THEN LET k == CHOOSE i \in cased : \A j \in cased : i <= j
               IN  a[k] = LowerChar(a[k])
          ELSE FALSE

\* the nodes under the keys of the node of `path` (the root for <<>>)
Children(t, path) ==
  {n \in t : Len(n.path) = Len(path) + 1 /\ SubSeq(n.path, 1, Len(path)) = path}

\* renderTreeNode(node, path): the entries of one <ul>, in the order
\* `Object.keys(node).sort(...)` gives them; the comparator is negative for
\* a folder and a file, and else for two names that localeCompare orders
renderTreeNode(t, path) ==
  LET kids == Children(t, path)
      n == Cardinality(kids)
  IN  CHOOSE q \in [1..n -> kids] :
        /\ \A i, j \in 1..n : i # j => q[i] # q[j]
        /\ \A i, j \in 1..n :
             i < j => \/ ~q[i].isFile /\ q[j].isFile
                      \/ /\ q[i].isFile = q[j].isFile
                         /\ LocaleBefore(q[i].path[Len(q[i].path)],
                                         q[j].path[Len(q[j].path)])

\* the entries of generateTreeText(node): `Object.entries(node)`, unsorted
ObjectEntries(t, path) ==
  LET kids == Children(t, path)
      n == Cardinality(kids)
  IN  CHOOSE q \in [1..n -> kids] :
        /\ \A i, j \in 1..n : i # j => q[i] # q[j]
        /\ \A i, j \in 1..n : i < j => q[i].order < q[j].order

\* generateTreeText(node, indent, isRoot) as the lines of its text, each with
\* the node it names: a line for every entry, followed by the lines of the
\* entry when it is not a file
RECURSIVE TextOfEntries(_, _, _)
RECURSIVE generateTreeText(_, _)
generateTreeText(t, path) == TextOfEntries(t, ObjectEntries(t, path), 1)
TextOfEntries(t, entries, k) ==
  IF k > Len(entries) THEN <<>>
  ELSE <<[path |-> entries[k].path, isFile |-> entries[k].isFile,
          isLast |-> (k = Len(entries))]>>
       \o (IF entries[k].isFile THEN <<>> ELSE generateTreeText(t, entries[k].path))
       \o TextOfEntries(t, entries, k + 1)

\* renderFiles() when this.currentView = view and this.useRelativePaths = rel:
\* the list view leaves file blocks, the tree view the tree it has built
RenderAs(store, term, view, rel) ==
  /\ dom' = IF view = "list" THEN renderFiles(store, term) ELSE <<>>
  /\ tree' = IF view = "tree" /\ Len(store) > 0
               THEN buildFileTree(Filtered(store, term), rel)
               ELSE {}
  /\ draggedElement' = DetachDragged(draggedElement)

\* the effect of a handler that ends up calling renderFiles()
Rerender(store, term) ==
  /\ RenderAs(store, term, currentView, useRelativePaths)
  /\ UNCHANGED <<currentView, useRelativePaths, relativePathToggle>>

NoRender == UNCHANGED <<dom, draggedElement, viewVars>>

\* moveLog holds the reorders made since the last handler that was not one
NotAReorder == moveLog' = <<>>

-----------------------------------------------------------------------------
(* handleFileSelect and processFileAsync *)

Op(name, res, a, b) == [op |-> name, res |-> res, a |-> a, b |-> b]

\* the fileObj built by reader.onload
fileObj(file, id) ==
  [id |-> id,
   name |-> file.name,
   size |-> file.size,
   type |-> IF file.type = "" THEN "application/octet-stream" ELSE file.type,
   lastModified |-> file.lastModified,
   relativePath |-> IF file.relativePath # <<>> THEN file.relativePath ELSE file.name,
   content |-> file.text,
   contentIsString |-> (StartsWithImage(file.type) \/ StartsWithVideo(file.type)
                        \/ StartsWithAudio(file.type) \/ ~isBinaryFile(file.type)),
   isImage |-> StartsWithImage(file.type) /\ ~EndsWith(file.name, <<".", "s", "v", "g">>),
   isVideo |-> StartsWithVideo(file.type),
   isAudio |-> StartsWithAudio(file.type),
   isBinary |-> isBinaryFile(file.type),
   isHTML |-> (EndsWith(file.name, <<".", "h", "t", "m", "l">>)
               \/ EndsWith(file.name, <<".", "h", "t", "m">>))]

\* the locals of one handleFileSelect invocation that is suspended at an await:
\* pc = "reading" at `await this.processFileAsync(file)`,
\* pc = "yield" at `await new Promise(resolve => setTimeout(resolve, 10))`
NewBatch(valid) ==
  [validFiles |-> valid, i |-> 0, pc |-> "reading", processed |-> 0, errors |-> 0,
   processedFiles |-> <<>>, startLen |-> Len(files), sameTick |-> FALSE]

\* `if (this.isProcessing)` at the head of handleFileSelect
SelectBusy_never(processing) == FALSE
SelectBusy(processing) == processing

\* the synchronous part of handleFileSelect(fs), up to its first await or return,
\* called with this.isProcessing = processing
SelectResult(fs, processing) ==
  IF Len(fs) = 0
    THEN [isProcessing |-> processing, batches |-> batches, res |-> "No files selected"]
  ELSE IF SelectBusy(processing)
    THEN [isProcessing |-> processing, batches |-> batches, res |-> "busy"]
  ELSE LET valid == validFiles(fs, files)
       IN  IF Len(valid) = 0
             THEN [isProcessing |-> FALSE, batches |-> batches, res |-> "nothing valid"]
             ELSE [isProcessing |-> TRUE, batches |-> Append(batches, NewBatch(valid)),
                   res |-> "started"]

\* a change event of the file input or the folder input
HandleFileSelect(fs) ==
  /\ lastId + Len(fs) <= MaxId
  /\ LET r == SelectResult(fs, isProcessing)
     IN  /\ isProcessing' = r.isProcessing
         /\ batches' = r.batches
         /\ LET report == IF r.res \in {"started", "nothing valid"}
                             THEN Report(fs, files) ELSE Report(<<>>, files)
            IN  lastOp' = [op |-> "handleFileSelect", res |-> r.res, a |-> Len(fs),
                           b |-> Len(report.errors), report |-> report]
  /\ UNCHANGED <<files, processingQueue, drop, lastId, selectedFiles, confirmModal,
                 searchTerm, searchMatches, currentMatchIndex, searchDebounce,
                 searchNavShown, dom, viewVars, draggedIndex, draggedElement>>
  /\ NotAReorder

RemoveAt(s, k) == SubSeq(s, 1, k - 1) \o SubSeq(s, k + 1, Len(s))

\* the value isProcessing takes in the finally block
FinallyProcessing_kept == isProcessing
FinallyProcessing == FALSE

\* the loop moves on from iteration c.i of batch k: either the next
\* processFileAsync is started, or the loop is over and the function runs to
\* its end (render when something was processed, then the finally block)
Progress(c) ==
  [processed |-> c.processed, errors |-> c.errors, total |-> Len(c.validFiles),
   processedFiles |-> c.processedFiles]

Advance(k, c, store, event) ==
  IF c.i + 1 < Len(c.validFiles)
    THEN /\ batches' = [batches EXCEPT ![k] = [c EXCEPT !.i = c.i + 1, !.pc = "reading"]]
         /\ isProcessing' = isProcessing
         /\ NoRender
         /\ lastOp' = [op |-> "fileDone", res |-> event, a |-> c.startLen,
                       b |-> c.processed, progress |-> Progress(c)]
    ELSE /\ batches' = RemoveAt(batches, k)
         /\ isProcessing' = FinallyProcessing
         /\ IF c.processed > 0 THEN Rerender(store, searchTerm) ELSE NoRender
         /\ lastOp' = [op |-> "batchDone", res |-> event, a |-> c.startLen,
                       b |-> c.processed, progress |-> Progress(c)]

\* the catch block of the processing loop
AfterReject_abort(k, c, event) ==
  Advance(k, [c EXCEPT !.errors = c.errors + 1, !.i = Len(c.validFiles)], files, event)
AfterReject(k, c, event) ==
  Advance(k, [c EXCEPT !.errors = c.errors + 1], files, event)

\* Date.now() + Math.random(): a new value, or the value of the record created
\* just before when both were created within the same millisecond and the sum
\* rounded to the same double
NewIds(c) == {lastId + 1} \cup (IF c.sameTick /\ lastId > 0 THEN {lastId} ELSE {})

\* reader.onload of the read of batch k, and the continuation of the loop
ReadLoad(k) ==
  /\ k \in 1..Len(batches)
  /\ batches[k].pc = "reading"
  /\ LET c == batches[k]
         file == c.validFiles[c.i + 1]
     IN  \E id \in NewIds(c) :
           LET store == Append(files, fileObj(file, id))
               c2 == [c EXCEPT !.processed = c.processed + 1,
                               !.processedFiles = Append(@, fileObj(file, id))]
           IN  /\ files' = store
               /\ lastId' = IF id > lastId THEN id ELSE lastId
               /\ IF c.i % 5 = 0
                    THEN /\ batches' = [batches EXCEPT ![k] =
                                          [c2 EXCEPT !.pc = "yield", !.sameTick = FALSE]]
                         /\ isProcessing' = isProcessing
                         /\ NoRender
                         /\ lastOp' = [op |-> "fileDone", res |-> "load", a |-> c.startLen,
                                       b |-> c2.processed, progress |-> Progress(c2)]
                    ELSE Advance(k, [c2 EXCEPT !.sameTick = TRUE], store, "load")
  /\ UNCHANGED <<processingQueue, drop, selectedFiles, confirmModal, searchTerm,
                 searchMatches, currentMatchIndex, searchDebounce, searchNavShown,
                 draggedIndex>>
  /\ NotAReorder

\* reader.onerror of the read of batch k
ReadError(k) ==
  /\ k \in 1..Len(batches)
  /\ batches[k].pc = "reading"
  /\ AfterReject(k, batches[k], "error")
  /\ UNCHANGED <<files, processingQueue, drop, lastId, selectedFiles, confirmModal,
                 searchTerm, searchMatches, currentMatchIndex, searchDebounce,
                 searchNavShown, draggedIndex>>
  /\ NotAReorder

\* the 30 second timer of processFileAsync: reader.abort() and reject
ReadTimeout(k) ==
  /\ k \in 1..Len(batches)
  /\ batches[k].pc = "reading"
  /\ AfterReject(k, [batches[k] EXCEPT !.sameTick = FALSE], "timeout")
  /\ UNCHANGED <<files, processingQueue, drop, lastId, selectedFiles, confirmModal,
                 searchTerm, searchMatches, currentMatchIndex, searchDebounce,
                 searchNavShown, draggedIndex>>
  /\ NotAReorder

\* the 10 ms timer of `if (i % 5 === 0)`
YieldDone(k) ==
  /\ k \in 1..Len(batches)
  /\ batches[k].pc = "yield"
  /\ Advance(k, batches[k], files, "timer")
  /\ UNCHANGED <<files, processingQueue, drop, lastId, selectedFiles, confirmModal,
                 searchTerm, searchMatches, currentMatchIndex, searchDebounce,
                 searchNavShown, draggedIndex>>
  /\ NotAReorder

-----------------------------------------------------------------------------
(* handleDrop, collectEntryFiles and readAllEntriesForCollection *)

\* The file system entries that can be dropped: directory d holding file a.c
\* and directory e, which holds B.c; and a second a.c outside d.
\* parent = 0 marks an entry that is dropped itself.
Entries ==
  <<[isFile |-> FALSE, name |-> NameD, parent |-> 0, children |-> <<2, 3>>, file |-> FileE],
    [isFile |-> TRUE, name |-> NameAC, parent |-> 1, children |-> <<>>, file |-> FileA0],
    [isFile |-> FALSE, name |-> NameE, parent |-> 1, children |-> <<4>>, file |-> FileE],
    [isFile |-> TRUE, name |-> NameBC, parent |-> 3, children |-> <<>>, file |-> FileB],
    [isFile |-> TRUE, name |-> NameAC, parent |-> 0, children |-> <<>>, file |-> FileA5]>>

EntryIds == 1..Len(Entries)

\* the DataTransferItems of a drop: entry = 0 when webkitGetAsEntry() gives
\* null, and then file is what getAsFile() gives (hasFile = FALSE: null)
ItemDir    == [kind |-> "file", entry |-> 1, hasFile |-> FALSE, file |-> FileE]
ItemFile   == [kind |-> "file", entry |-> 5, hasFile |-> FALSE, file |-> FileE]
ItemPlain  == [kind |-> "file", entry |-> 0, hasFile |-> TRUE, file |-> FileB]
ItemString == [kind |-> "string", entry |-> 0, hasFile |-> FALSE, file |-> FileE]

\* e.dataTransfer.items of the drops considered
DropLists ==
  {<<>>, <<ItemString>>, <<ItemPlain>>, <<ItemFile>>, <<ItemDir>>, <<ItemDir, ItemFile>>}

\* the `path` argument collectEntryFiles receives for entry n
RECURSIVE PathOf(_)
PathOf(n) ==
  IF Entries[n].parent = 0 THEN <<>>
  ELSE LET p == Entries[n].parent IN PathOf(p) \o Entries[p].name \o <<"/">>

\* the File the success callback of entry.file() pushes:
\* file.relativePath = path + entry.name
EntryFile(n) == [Entries[n].file EXCEPT !.relativePath = PathOf(n) \o Entries[n].name]

\* Where the callbacks of an entry stand:
\*   "idle"   collectEntryFiles has not been called for it
\*   "wait"   entry.file(), or the first dirReader.readEntries(), is outstanding
\*   "kids"   a directory waiting for Promise.all over its entries
\*   "wait2"  the readEntries() issued after the entries were collected
\*   "ok"     callback(files) was called; "fail": callback([]) after an error
Settled == {"ok", "fail"}

NoDrop == [active |-> FALSE, items |-> <<>>, st |-> [n \in EntryIds |-> "idle"]]

\* what the callback of entry n was called with
RECURSIVE CollectedFiles(_, _)
RECURSIVE ConcatCollected(_, _)
ConcatCollected(st, ns) ==
  IF ns = <<>> THEN <<>>
  ELSE CollectedFiles(st, Head(ns)) \o ConcatCollected(st, Tail(ns))
CollectedFiles(st, n) ==
  IF st[n] # "ok" THEN <<>>
  ELSE IF Entries[n].isFile THEN <<EntryFile(n)>>
  ELSE ConcatCollected(st, Entries[n].children)

\* what the promise of one dropped item resolved with
ItemFiles(st, item) ==
  IF item.kind # "file" THEN <<>>
  ELSE IF item.entry # 0 THEN CollectedFiles(st, item.entry)
  ELSE IF item.hasFile THEN <<item.file>>
  ELSE <<>>

\* fileArrays.flat()
RECURSIVE allFiles(_, _)
allFiles(st, items) ==
  IF items = <<>> THEN <<>>
  ELSE ItemFiles(st, Head(items)) \o allFiles(st, Tail(items))

\* is the promise of the dropped item resolved
ItemResolved(st, item) ==
  item.kind = "file" /\ item.entry # 0 => st[item.entry] \in Settled

\* Promise.all over the children of the directory above n has resolved:
\* readEntries() is called again
SettleParent(st, n) ==
  LET p == Entries[n].parent
  IN  IF /\ p # 0
         /\ st[p] = "kids"
         /\ \A j \in 1..Len(Entries[p].children) : st[Entries[p].children[j]] \in Settled
        THEN [st EXCEPT ![p] = "wait2"]
        ELSE st

\* the number of files a drop list can deliver
RECURSIVE CountFiles(_)
CountFiles(items) ==
  IF items = <<>> THEN 0
  ELSE LET st == [n \in EntryIds |-> "ok"]
       IN  Len(ItemFiles(st, Head(items))) + CountFiles(Tail(items))

\* `if (this.isProcessing)` in handleDrop
DropBusy(processing) == processing

\* the then-callback of Promise.all(promises) in handleDrop, once every dropped
\* item has resolved; it runs in the same turn of the event loop as the last callback
DropResolved(st, items) ==
  LET all == allFiles(st, items)
  IN  /\ drop' = NoDrop
      /\ IF Len(all) > 0
           THEN LET r == SelectResult(all, FALSE)
                IN  /\ isProcessing' = r.isProcessing
                    /\ batches' = r.batches
                    /\ lastOp' = Op("dropCollected", r.res, Len(all),
                                    Len(validFiles(all, files)))
           ELSE /\ isProcessing' = FALSE
                /\ batches' = batches
                /\ lastOp' = Op("dropCollected", "No valid files found", 0, 0)

\* the drop has a callback outstanding, or it is over
DropContinues(st, items, opname) ==
  IF \A j \in 1..Len(items) : ItemResolved(st, items[j])
    THEN DropResolved(st, items)
    ELSE /\ drop' = [active |-> TRUE, items |-> items, st |-> st]
         /\ isProcessing' = TRUE
         /\ batches' = batches
         /\ lastOp' = Op(opname, "collecting", Len(items), 0)

\* a drop event on the upload area
HandleDrop(items) ==
  /\ lastId + CountFiles(items) <= MaxId
  /\ IF Len(items) = 0
       THEN /\ lastOp' = Op("handleDrop", "No files dropped", 0, 0)
            /\ UNCHANGED <<isProcessing, batches, drop>>
     ELSE IF DropBusy(isProcessing)
       THEN /\ lastOp' = Op("handleDrop", "busy", Len(items), 0)
            /\ UNCHANGED <<isProcessing, batches, drop>>
     ELSE LET started == {items[j].entry : j \in {i \in 1..Len(items) :
                                                   items[i].kind = "file" /\ items[i].entry # 0}}
              st == [n \in EntryIds |-> IF n \in started THEN "wait" ELSE "idle"]
          IN  DropContinues(st, items, "handleDrop")
  /\ UNCHANGED <<files, processingQueue, lastId, selectedFiles, confirmModal,
                 searchTerm, searchMatches, currentMatchIndex, searchDebounce,
                 searchNavShown, dom, viewVars, draggedIndex, draggedElement>>
  /\ NotAReorder

\* the success callback of entry.file(), or of readEntries(), for entry n
EntryCallback(n) ==
  /\ drop.active
  /\ n \in EntryIds
  /\ drop.st[n] \in {"wait", "wait2"}
  /\ LET e == Entries[n]
         st1 == IF e.isFile \/ drop.st[n] = "wait2" \/ Len(e.children) = 0
                  THEN [drop.st EXCEPT ![n] = "ok"]
                  ELSE [k \in EntryIds |->
                          IF k = n THEN "kids"
                          ELSE IF \E j \in 1..Len(e.children) : e.children[j] = k THEN "wait"
                          ELSE drop.st[k]]
         st2 == IF st1[n] = "ok" THEN SettleParent(st1, n) ELSE st1
     IN  DropContinues(st2, drop.items, "entryCallback")
  /\ UNCHANGED <<files, processingQueue, lastId, selectedFiles, confirmModal,
                 searchTerm, searchMatches, currentMatchIndex, searchDebounce,
                 searchNavShown, dom, viewVars, draggedIndex, draggedElement>>
  /\ NotAReorder

\* the error callback of entry.file(), or of readEntries(), for entry n
EntryError(n) ==
  /\ drop.active
  /\ n \in EntryIds
  /\ drop.st[n] \in {"wait", "wait2"}
  /\ LET st1 == [drop.st EXCEPT ![n] = IF drop.st[n] = "wait2" THEN "ok" ELSE "fail"]
     IN  DropContinues(SettleParent(st1, n), drop.items, "entryError")
  /\ UNCHANGED <<files, processingQueue, lastId, selectedFiles, confirmModal,
                 searchTerm, searchMatches, currentMatchIndex, searchDebounce,
                 searchNavShown, dom, viewVars, draggedIndex, draggedElement>>
  /\ NotAReorder

-----------------------------------------------------------------------------
(* The confirmation modal, deletion and selection *)

\* the modal is hidden; the listeners left on its hidden buttons cannot be reached
NoModal == [open |-> FALSE, kind |-> "none", fileIndex |-> 0, fileId |-> 0]

IdsOf(store) == {store[k].id : k \in 1..Len(store)}

\* this.files.findIndex((f) => f.id === fileId), 0-based, -1 when absent
FindIndex(store, fileId) ==
  LET hits == {k \in 1..Len(store) : store[k].id = fileId}
  IN  IF hits = {} THEN -1 ELSE (CHOOSE k \in hits : \A h \in hits : k <= h) - 1

\* array.splice(index, 1) with a 0-based index; a negative index counts from
\* the end
Splice1(store, index) ==
  LET start == IF index >= 0 THEN index
               ELSE IF Len(store) + index > 0 THEN Len(store) + index ELSE 0
  IN  IF start < Len(store) THEN RemoveAt(store, start + 1) ELSE store

FrameOfStoreOp ==
  /\ UNCHANGED <<isProcessing, processingQueue, batches, drop, lastId, searchTerm,
                 searchMatches, currentMatchIndex, searchDebounce, searchNavShown,
                 draggedIndex>>
  /\ NotAReorder

\* `if (fileIndex === -1)` of deleteFile
UnknownIndex_never(fileIndex) == FALSE
UnknownIndex(fileIndex) == fileIndex = -1

\* deleteFile(fileId), the method of the global fileManager
deleteFile(fileId) ==
  /\ LET fileIndex == FindIndex(files, fileId)
     IN  IF UnknownIndex(fileIndex)
           THEN /\ confirmModal' = confirmModal
                /\ lastOp' = Op("deleteFile", "File not found", fileId, 0)
           ELSE /\ confirmModal' = [open |-> TRUE, kind |-> "deleteFile",
                                    fileIndex |-> fileIndex, fileId |-> fileId]
                /\ lastOp' = Op("deleteFile", "confirm?", fileId, fileIndex)
  /\ UNCHANGED <<files, selectedFiles>>
  /\ NoRender
  /\ FrameOfStoreOp

\* deleteFile(fileId), from the delete button of a rendered block
DeleteFile(fileId) ==
  /\ \E k \in 1..Len(dom) : dom[k].id = fileId
  /\ deleteFile(fileId)

\* deleteAllFiles(), from the Delete All button
DeleteAllFiles ==
  /\ confirmModal' = [open |-> TRUE, kind |-> "deleteAll", fileIndex |-> 0, fileId |-> 0]
  /\ lastOp' = Op("deleteAllFiles", "confirm?", 0, 0)
  /\ UNCHANGED <<files, selectedFiles>>
  /\ NoRender
  /\ FrameOfStoreOp

\* selectAllFiles(), from Ctrl/Cmd+A
SelectAllFiles ==
  /\ IF Len(files) = 0
       THEN /\ UNCHANGED selectedFiles
            /\ NoRender
            /\ lastOp' = Op("selectAllFiles", "nothing", 0, 0)
       ELSE /\ selectedFiles' = IdsOf(files)
            /\ Rerender(files, searchTerm)
            /\ lastOp' = Op("selectAllFiles", "selected", Len(files), 0)
  /\ UNCHANGED <<files, confirmModal>>
  /\ FrameOfStoreOp

\* deleteSelectedFiles(), from the Delete key
DeleteSelectedFiles ==
  /\ selectedFiles # {}
  /\ confirmModal' = [open |-> TRUE, kind |-> "deleteSelected", fileIndex |-> 0, fileId |-> 0]
  /\ lastOp' = Op("deleteSelectedFiles", "confirm?", 0, 0)
  /\ UNCHANGED <<files, selectedFiles>>
  /\ NoRender
  /\ FrameOfStoreOp

\* what the onConfirm closure of deleteAllFiles leaves in this.selectedFiles
DeleteAllSelection_kept == selectedFiles
DeleteAllSelection == {}

\* this.selectedFiles.delete(fileId) in the onConfirm closure of deleteFile
DeleteFileSelection_kept(selection, fileId) == selection
DeleteFileSelection(selection, fileId) == selection \ {fileId}

\* the click listener of confirmOk: hideConfirmModal(), then onConfirm()
ConfirmOk ==
  /\ confirmModal.open
  /\ confirmModal' = NoModal
  /\ CASE confirmModal.kind = "deleteFile" ->
            /\ files' = Splice1(files, confirmModal.fileIndex)
            /\ selectedFiles' = DeleteFileSelection(selectedFiles, confirmModal.fileId)
            /\ lastOp' = Op("confirmOk", "deleteFile", Cardinality(selectedFiles), Len(files))
       [] confirmModal.kind = "deleteSelected" ->
            /\ files' = SelectSeq(files, LAMBDA f : f.id \notin selectedFiles)
            /\ selectedFiles' = {}
            /\ lastOp' = Op("confirmOk", "deleteSelected", Cardinality(selectedFiles), Len(files))
       [] OTHER ->
            /\ files' = <<>>
            /\ selectedFiles' = DeleteAllSelection
            /\ lastOp' = Op("confirmOk", "deleteAll", Cardinality(selectedFiles), Len(files))
  /\ Rerender(files', searchTerm)
  /\ FrameOfStoreOp

\* the click listener of confirmCancel
ConfirmCancel ==
  /\ confirmModal.open
  /\ confirmModal' = NoModal
  /\ lastOp' = Op("confirmCancel", "hidden", 0, 0)
  /\ UNCHANGED <<files, selectedFiles>>
  /\ NoRender
  /\ FrameOfStoreOp

-----------------------------------------------------------------------------
(* Search *)

NoTimer == [active |-> FALSE, value |-> <<>>]

\* what the user can have typed into the search box
SearchInputs == {<<>>, <<"a">>, <<"C">>, <<"A", ".", "c">>, <<"a", "a">>}

\* getMatchPositions(text, searchTerm): the scan from offset `from`
RECURSIVE ScanFrom(_, _, _)
ScanFrom(lowerText, term, from) ==
  LET index == IndexOfFrom(lowerText, term, from)
  IN  IF index = -1 THEN <<>>
      ELSE <<index>> \o ScanFrom(lowerText, term, index + 1)

getMatchPositions(text, term) ==
  IF text = <<>> \/ term = <<>> THEN <<>>
  ELSE ScanFrom(ToLowerCase(text), term, 0)

\* the entries findAllMatches pushes for one file
MatchesOfFile_anyContent(file, term) ==
  LET nameMatches == getMatchPositions(file.name, term)
      contentMatches == getMatchPositions(file.content, term)
  IN  [k \in 1..Len(nameMatches) |->
         [fileId |-> file.id, type |-> "name", position |-> nameMatches[k],
          matchIndex |-> k - 1]]
      \o
      [k \in 1..Len(contentMatches) |->
         [fileId |-> file.id, type |-> "content", position |-> contentMatches[k],
          matchIndex |-> k - 1]]
MatchesOfFile(file, term) ==
  LET nameMatches == getMatchPositions(file.name, term)
      contentMatches ==
        IF file.contentIsString /\ ~file.isBinary
          THEN getMatchPositions(file.content, term)
          ELSE <<>>
  IN  [k \in 1..Len(nameMatches) |->
         [fileId |-> file.id, type |-> "name", position |-> nameMatches[k],
          matchIndex |-> k - 1]]
      \o
      [k \in 1..Len(contentMatches) |->
         [fileId |-> file.id, type |-> "content", position |-> contentMatches[k],
          matchIndex |-> k - 1]]

\* findAllMatches(): this.searchMatches for the store and the term
RECURSIVE findAllMatches(_, _)
findAllMatches(store, term) ==
  IF store = <<>> THEN <<>>
  ELSE MatchesOfFile(Head(store), term) \o findAllMatches(Tail(store), term)

FrameOfSearchOp ==
  /\ UNCHANGED <<files, isProcessing, processingQueue, batches, drop, lastId,
                 selectedFiles, draggedIndex>>
  /\ NotAReorder

\* handleSearch(e): an input event of the search box with value v
HandleSearch(v) ==
  /\ searchDebounce' = [active |-> TRUE, value |-> ToLowerCase(v)]
  /\ searchNavShown' = IF Len(v) > 2 THEN TRUE ELSE searchNavShown
  /\ lastOp' = Op("handleSearch", "debounced", v, 0)
  /\ UNCHANGED <<searchTerm, searchMatches, currentMatchIndex, confirmModal>>
  /\ NoRender
  /\ FrameOfSearchOp

\* `this.currentMatchIndex = 0` in the debounce callback, given the cursor
\* before it
TimerCursor_kept(cursor) == cursor
TimerCursor(cursor) == 0

\* the debounce timer of handleSearch fires
SearchTimer ==
  /\ searchDebounce.active
  /\ searchDebounce' = NoTimer
  /\ searchTerm' = searchDebounce.value
  /\ currentMatchIndex' = TimerCursor(currentMatchIndex)
  /\ IF searchDebounce.value # <<>>
       THEN /\ searchMatches' = findAllMatches(files, searchDebounce.value)
            /\ searchNavShown' = TRUE
       ELSE /\ searchMatches' = <<>>
            /\ searchNavShown' = FALSE
  /\ Rerender(files, searchDebounce.value)
  /\ lastOp' = Op("searchTimer", "searched", searchDebounce.value, Len(searchMatches))
  /\ UNCHANGED confirmModal
  /\ FrameOfSearchOp

\* the assignments of clearSearch()
ClearSearchEffect_stale ==
  /\ searchTerm' = <<>>
  /\ searchMatches' = searchMatches
  /\ currentMatchIndex' = 0
  /\ searchNavShown' = FALSE
  /\ Rerender(files, <<>>)
  /\ UNCHANGED searchDebounce
ClearSearchEffect ==
  /\ searchTerm' = <<>>
  /\ searchMatches' = <<>>
  /\ currentMatchIndex' = 0
  /\ searchNavShown' = FALSE
  /\ Rerender(files, <<>>)
  /\ UNCHANGED searchDebounce

\* clearSearch(), from the clear button
ClearSearch ==
  /\ ClearSearchEffect
  /\ lastOp' = Op("clearSearch", "cleared", 0, Len(searchMatches))
  /\ UNCHANGED confirmModal
  /\ FrameOfSearchOp

\* handleGlobalKeyboard for the Escape key
EscapeKey ==
  /\ IF searchTerm # <<>>
       THEN ClearSearchEffect
       ELSE /\ UNCHANGED <<searchTerm, searchMatches, currentMatchIndex,
                           searchNavShown, searchDebounce>>
            /\ NoRender
  /\ confirmModal' = NoModal
  /\ lastOp' = Op("escapeKey", IF searchTerm # <<>> THEN "cleared" ELSE "nothing", 0,
                  Len(searchMatches))
  /\ FrameOfSearchOp

\* the cursor navigateSearch(direction) computes from cursor i over n matches;
\* (i - 1) % n, without the + n, is i - 1 in JavaScript for 0 <= i < n
NavIndex_signed(direction, i, n) ==
  IF direction = "next" THEN (i + 1) % n ELSE i - 1
NavIndex(direction, i, n) ==
  IF direction = "next" THEN (i + 1) % n ELSE (i - 1 + n) % n

\* navigateSearch(direction)
NavigateSearch(direction) ==
  /\ IF Len(searchMatches) = 0
       THEN /\ UNCHANGED currentMatchIndex
            /\ lastOp' = Op("navigateSearch", "no matches", direction, 0)
       ELSE /\ currentMatchIndex' =
                 NavIndex(direction, currentMatchIndex, Len(searchMatches))
            /\ lastOp' = Op("navigateSearch", "moved", direction, 0)
  /\ UNCHANGED <<searchTerm, searchMatches, searchDebounce, searchNavShown, confirmModal>>
  /\ NoRender
  /\ FrameOfSearchOp

\* handleSearchKeydown(e) for the Enter key, with or without Shift
HandleSearchKeydown(shiftKey) ==
  IF searchTerm = <<>>
    THEN /\ lastOp' = Op("handleSearchKeydown", "ignored", shiftKey, 0)
         /\ UNCHANGED <<searchTerm, searchMatches, currentMatchIndex, searchDebounce,
                        searchNavShown, confirmModal>>
         /\ NoRender
         /\ FrameOfSearchOp
    ELSE NavigateSearch(IF shiftKey THEN "prev" ELSE "next")

-----------------------------------------------------------------------------
(* Rename and content edit *)

\* what the user can leave in the name input when it loses focus
NameInputs ==
  {<<>>, <<" ">>, NameAC, <<" ", "B", ".", "c">>, <<"a", "?", "c">>,
   <<"a", TAB, "c">>, <<"d", "/", "a", ".", "c">>}

\* what the user can leave in the content textarea when it loses focus
ContentInputs == {<<>>, <<"a">>, <<"C", "a">>}

\* /[<>:"/\\|?*]/.test(newName), the name test of saveFileName
InvalidCharsRename(newName) ==
  \E k \in 1..Len(newName) : newName[k] \in ReservedChars

\* the store once a handler has changed the first record with the given id into rec
UpdateFirst(store, fileId, rec) ==
  LET index == FindIndex(store, fileId)
  IN  [k \in 1..Len(store) |-> IF k = index + 1 THEN rec ELSE store[k]]

\* this.files.find((f) => f.id === fileId), for an id the store holds
FindFile(store, fileId) == store[FindIndex(store, fileId) + 1]

FrameOfEditOp ==
  /\ UNCHANGED <<isProcessing, processingQueue, batches, drop, lastId, selectedFiles,
                 confirmModal, searchTerm, searchMatches, currentMatchIndex,
                 searchDebounce, searchNavShown, draggedIndex>>
  /\ NoRender
  /\ NotAReorder

\* the outcome of saveFileName(fileId) when the name input holds value
SaveFileNameResult(fileId, value) ==
  LET newName == Trim(value)
  IN  IF ~\E k \in 1..Len(dom) : dom[k].id = fileId THEN "Name elements not found"
      ELSE IF FindIndex(files, fileId) = -1 THEN "File not found"
      ELSE IF newName = <<>> THEN "Filename cannot be empty"
      ELSE IF InvalidCharsRename(newName) THEN "Invalid characters in filename"
      ELSE "Renamed"

\* saveFileName(fileId): blur or Enter in the name input of a rendered block
SaveFileName(fileId, value) ==
  /\ \E k \in 1..Len(dom) : dom[k].id = fileId
  /\ LET res == SaveFileNameResult(fileId, value)
         newName == Trim(value)
     IN  /\ files' = IF res = "Renamed"
                       THEN UpdateFirst(files, fileId,
                              [FindFile(files, fileId) EXCEPT !.name = newName,
                                                              !.relativePath = newName])
                       ELSE files
         /\ lastOp' = Op("saveFileName", res, fileId, value)
  /\ FrameOfEditOp

\* saveFileContent(fileId): blur of the content textarea of a rendered block
SaveFileContent(fileId, value) ==
  /\ \E k \in 1..Len(dom) : dom[k].id = fileId
  /\ LET first == CHOOSE k \in 1..Len(dom) :
                    dom[k].id = fileId /\ \A j \in 1..(k - 1) : dom[j].id # fileId
         res == IF ~dom[first].textarea THEN "Content elements not found"
                ELSE IF FindIndex(files, fileId) = -1 THEN "File not found"
                ELSE "Content updated"
     IN  /\ files' = IF res = "Content updated"
                       THEN UpdateFirst(files, fileId,
                              [FindFile(files, fileId) EXCEPT !.content = value,
                                                              !.size = Len(value),
                                                              !.contentIsString = TRUE])
                       ELSE files
         /\ lastOp' = Op("saveFileContent", res, fileId, value)
  /\ FrameOfEditOp

-----------------------------------------------------------------------------
(* Reordering by drag and drop (list view) *)

FrameOfDragOp ==
  UNCHANGED <<isProcessing, processingQueue, batches, drop, lastId, selectedFiles,
              confirmModal, searchTerm, searchMatches, currentMatchIndex,
              searchDebounce, searchNavShown>>

\* handleDragStart on the block with data-index = index
HandleDragStart(index) ==
  /\ index \in 0..(Len(dom) - 1)
  /\ draggedElement' = "attached"
  /\ draggedIndex' = index
  /\ lastOp' = Op("handleDragStart", "dragging", index, 0)
  /\ UNCHANGED <<files, dom, viewVars, moveLog>>
  /\ FrameOfDragOp

\* array.splice(index, 0, item) with a 0-based index
InsertAt(store, index, item) ==
  LET at == IF index > Len(store) THEN Len(store) ELSE index
  IN  SubSeq(store, 1, at) \o <<item>> \o SubSeq(store, at + 1, Len(store))

\* the two splices of handleDragDrop
Reorder(store, dragged, targetIndex) ==
  LET draggedFile == store[dragged + 1]
      removed == Splice1(store, dragged)
      newTargetIndex == IF dragged < targetIndex THEN targetIndex - 1 ELSE targetIndex
  IN  InsertAt(removed, newTargetIndex, draggedFile)

\* the last two reorders
Logged(log, entry) ==
  IF Len(log) < 2 THEN Append(log, entry) ELSE <<log[2], entry>>

\* handleDragDrop on the block with data-index = targetIndex.
\* A drop whose draggedIndex no longer names a record (the store has shrunk
\* since the drag began) is outside the model.
HandleDragDrop(targetIndex) ==
  /\ targetIndex \in 0..(Len(dom) - 1)
  /\ draggedElement # "null"
  /\ ~(draggedElement = "attached" /\ draggedIndex = targetIndex)
  /\ draggedIndex < Len(files)
  /\ files' = Reorder(files, draggedIndex, targetIndex)
  /\ Rerender(files', searchTerm)
  /\ moveLog' = Logged(moveLog, [from |-> draggedIndex, to |-> targetIndex,
                                 before |-> files,
                                 unfiltered |-> (Len(dom) = Len(files))])
  /\ lastOp' = Op("handleDragDrop", IF draggedIndex < targetIndex THEN "Down" ELSE "UP",
                  draggedIndex, targetIndex)
  /\ UNCHANGED draggedIndex
  /\ FrameOfDragOp

\* handleDragEnd on the dragged block; a block that a render has replaced has
\* lost its listeners (initializeDragAndDrop removes them)
HandleDragEnd ==
  /\ draggedElement = "attached"
  /\ draggedElement' = "null"
  /\ draggedIndex' = -1
  /\ lastOp' = Op("handleDragEnd", "ended", 0, 0)
  /\ UNCHANGED <<files, dom, viewVars, moveLog>>
  /\ FrameOfDragOp

-----------------------------------------------------------------------------
(* Views *)

FrameOfViewOp ==
  /\ UNCHANGED <<files, isProcessing, processingQueue, batches, drop, lastId,
                 selectedFiles, confirmModal, searchTerm, searchMatches,
                 currentMatchIndex, searchDebounce, searchNavShown, draggedIndex>>
  /\ NotAReorder

\* switchView(view), from the three view buttons
SwitchView(view) ==
  /\ currentView' = view
  /\ RenderAs(files, searchTerm, view, useRelativePaths)
  /\ UNCHANGED <<useRelativePaths, relativePathToggle>>
  /\ lastOp' = Op("switchView", view, 0, 0)
  /\ FrameOfViewOp

\* toggleRelativePaths(), from a change event of the checkbox
ToggleRelativePaths ==
  /\ relativePathToggle' = ~relativePathToggle
  /\ useRelativePaths' = relativePathToggle'
  /\ RenderAs(files, searchTerm, currentView, useRelativePaths')
  /\ UNCHANGED currentView
  /\ lastOp' = Op("toggleRelativePaths", "toggled", 0, 0)
  /\ FrameOfViewOp

\* copyTreeStructure(), from the Copy Tree button of the tree view: the text
\* of the tree of the whole store
CopyTreeStructure ==
  /\ currentView = "tree"
  /\ Len(files) > 0
  /\ LET treeText == generateTreeText(buildFileTree(files, useRelativePaths), <<>>)
     IN  lastOp' = [op |-> "copyTreeStructure", res |-> "Tree structure copied",
                    a |-> 0, b |-> Len(treeText), clipboard |-> treeText]
  /\ UNCHANGED <<dom, draggedElement, viewVars>>
  /\ FrameOfViewOp

-----------------------------------------------------------------------------
(* The application *)

Init ==
  /\ files = <<>>
  /\ isProcessing = FALSE
  /\ processingQueue = <<>>
  /\ batches = <<>>
  /\ drop = NoDrop
  /\ lastId = 0
  /\ selectedFiles = {}
  /\ confirmModal = NoModal
  /\ searchTerm = <<>>
  /\ searchMatches = <<>>
  /\ currentMatchIndex = 0
  /\ searchDebounce = NoTimer
  /\ searchNavShown = FALSE
  /\ dom = <<>>
  /\ currentView = "list"
  /\ useRelativePaths = TRUE
  /\ relativePathToggle = FALSE
  /\ tree = {}
  /\ draggedIndex = -1
  /\ draggedElement = "null"
  /\ moveLog = <<>>
  /\ lastOp = Op("constructor", "ready", 0, 0)

IngestNext ==
  \/ \E fs \in PickerBatches : HandleFileSelect(fs)
  \/ \E k \in 1..Len(batches) : ReadLoad(k)
  \/ \E k \in 1..Len(batches) : ReadError(k)
  \/ \E k \in 1..Len(batches) : ReadTimeout(k)
  \/ \E k \in 1..Len(batches) : YieldDone(k)
  \/ \E items \in DropLists : HandleDrop(items)
  \/ \E n \in EntryIds : EntryCallback(n)
  \/ \E n \in EntryIds : EntryError(n)

StoreNext ==
  \/ \E k \in 1..Len(dom) : DeleteFile(dom[k].id)
  \/ DeleteAllFiles
  \/ SelectAllFiles
  \/ DeleteSelectedFiles
  \/ ConfirmOk
  \/ ConfirmCancel

SearchNext ==
  \/ \E v \in SearchInputs : HandleSearch(v)
  \/ SearchTimer
  \/ ClearSearch
  \/ EscapeKey
  \/ \E d \in {"next", "prev"} : NavigateSearch(d)
  \/ \E shiftKey \in BOOLEAN : HandleSearchKeydown(shiftKey)

EditNext ==
  \/ \E k \in 1..Len(dom), v \in NameInputs : SaveFileName(dom[k].id, v)
  \/ \E k \in 1..Len(dom), v \in ContentInputs : SaveFileContent(dom[k].id, v)

ViewNext ==
  \/ \E view \in {"list", "tree", "code"} : SwitchView(view)
  \/ ToggleRelativePaths
  \/ CopyTreeStructure

DragNext ==
  \/ \E k \in 0..(Len(dom) - 1) : HandleDragStart(k)
  \/ \E k \in 0..(Len(dom) - 1) : HandleDragDrop(k)
  \/ HandleDragEnd

Next == IngestNext \/ StoreNext \/ SearchNext \/ EditNext \/ DragNext \/ ViewNext

\* the whole application
Spec == Init /\ [][Next]_vars

\* the picker batches whose validation is looked at, and their reads
ValidationNext ==
  \/ \E fs \in ValidationBatches : HandleFileSelect(fs)
  \/ \E k \in 1..Len(batches) : ReadLoad(k)
  \/ \E k \in 1..Len(batches) : ReadError(k)
  \/ \E k \in 1..Len(batches) : ReadTimeout(k)
  \/ \E k \in 1..Len(batches) : YieldDone(k)

SpecValidate == Init /\ [][ValidationNext]_vars

\* the extensions of "File Type Support" in the README, each with the type a
\* browser gives a file of that extension (the registered media type, or what
\* Chrome reports where none is registered)
ReadmeKinds ==
  {
    <<<<"t", "x", "t">>, "text/plain">>,
    <<<<"m", "d">>, "text/markdown">>,
    <<<<"l", "o", "g">>, "text/plain">>,
    <<<<"j", "s">>, "text/javascript">>,
    <<<<"t", "s">>, "video/mp2t">>,
    <<<<"j", "s", "x">>, "">>,
    <<<<"t", "s", "x">>, "">>,
    <<<<"p", "y">>, "text/x-python">>,
    <<<<"j", "a", "v", "a">>, "text/x-java">>,
    <<<<"c", "p", "p">>, "text/x-c">>,
    <<<<"c">>, "text/x-c">>,
    <<<<"p", "h", "p">>, "application/x-httpd-php">>,
    <<<<"r", "b">>, "application/x-ruby">>,
    <<<<"g", "o">>, "">>,
    <<<<"s", "q", "l">>, "application/sql">>,
    <<<<"h", "t", "m", "l">>, "text/html">>,
    <<<<"c", "s", "s">>, "text/css">>,
    <<<<"s", "c", "s", "s">>, "text/x-scss">>,
    <<<<"j", "s", "o", "n">>, "application/json">>,
    <<<<"x", "m", "l">>, "text/xml">>,
    <<<<"j", "p", "g">>, "image/jpeg">>,
    <<<<"p", "n", "g">>, "image/png">>,
    <<<<"g", "i", "f">>, "image/gif">>,
    <<<<"s", "v", "g">>, "image/svg+xml">>,
    <<<<"m", "p", "4">>, "video/mp4">>,
    <<<<"m", "p", "3">>, "audio/mpeg">>,
    <<<<"w", "a", "v">>, "audio/wav">>,
    <<<<"p", "d", "f">>, "application/pdf">>,
    <<<<"d", "o", "c">>, "application/msword">>,
    <<<<"d", "o", "c", "x">>, "application/vnd.openxmlformats-officedocument.wordprocessingml.document">>
  }

\* one file of each kind, named f.<extension>, with one byte
ReadmeFiles ==
  {[name |-> <<"f", ".">> \o kind[1], size |-> 1, type |-> kind[2], lastModified |-> 0,
    relativePath |-> <<>>, text |-> <<"a">>] : kind \in ReadmeKinds}

\* selections of one or two files of the README kinds, whose reads fail
ReadmeNext ==
  \/ \E fs \in {<<f>> : f \in ReadmeFiles}
                \cup {<<pair[1], pair[2]>> :
                         pair \in {p \in ReadmeFiles \X ReadmeFiles : p[1] # p[2]}} :
       HandleFileSelect(fs)
  \/ \E k \in 1..Len(batches) : ReadError(k)
  \/ \E k \in 1..Len(batches) : ReadTimeout(k)

SpecReadme == Init /\ [][ReadmeNext]_vars

\* ingestion, deletion and selection, from construction
SpecIngest == Init /\ [][IngestNext \/ StoreNext]_vars

\* Timers fire (the 30 s read timeout and the 10 ms yield of the processing
\* loop), and the browser calls one callback for every entry.file() and
\* readEntries() it was asked for.
FairIngest ==
  /\ Init /\ [][IngestNext]_vars
  /\ WF_vars(\E k \in 1..Len(batches) : ReadTimeout(k))
  /\ WF_vars(\E k \in 1..Len(batches) : YieldDone(k))
  /\ WF_vars(\E n \in EntryIds : EntryCallback(n) \/ EntryError(n))

\* the stores a session can hold once its batches are done: distinct files in
\* the order they were accepted, with the ids they were given
LoadedStores ==
  {[k \in 1..Len(q) |-> fileObj(q[k], k)] :
     q \in SeqsUpTo({FileA0, FileB, FileImg}, MaxLoaded)}

\* the stores a session can hold once the folder d was dropped and a picture
\* was picked: the records keep the path of their folder
DroppedStores ==
  {[k \in 1..Len(q) |-> fileObj(q[k], k)] :
     q \in SeqsUpTo({EntryFile(2), EntryFile(4), FileImg}, MaxLoaded)}

\* the application after the batches that loaded one of the given stores
LoadedFrom(stores) ==
  /\ files \in stores
  /\ isProcessing = FALSE
  /\ processingQueue = <<>>
  /\ batches = <<>>
  /\ drop = NoDrop
  /\ lastId = Len(files)
  /\ selectedFiles = {}
  /\ confirmModal = NoModal
  /\ searchTerm = <<>>
  /\ searchMatches = <<>>
  /\ currentMatchIndex = 0
  /\ searchDebounce = NoTimer
  /\ searchNavShown = FALSE
  /\ dom = renderFiles(files, <<>>)
  /\ currentView = "list"
  /\ useRelativePaths = TRUE
  /\ relativePathToggle = FALSE
  /\ tree = {}
  /\ draggedIndex = -1
  /\ draggedElement = "null"
  /\ moveLog = <<>>
  /\ lastOp = Op("constructor", "loaded", 0, 0)

LoadedInit == LoadedFrom(LoadedStores)

\* search over a loaded store that records are deleted from
SpecSearch == LoadedInit /\ [][SearchNext \/ StoreNext]_vars

\* deleteFile called with any id, known to the store or not
DeleteNext ==
  \/ \E fileId \in 1..(MaxLoaded + 1) : deleteFile(fileId)
  \/ SelectAllFiles
  \/ ConfirmOk
  \/ ConfirmCancel

SpecDelete == LoadedInit /\ [][DeleteNext]_vars

\* deletion, selection and reordering of a loaded store
SpecConfirm == LoadedInit /\ [][StoreNext \/ DragNext]_vars

\* the search box is emptied or set to ".c", which some records match
FilterNext ==
  \/ \E v \in {<<>>, <<".", "c">>} : HandleSearch(v)
  \/ SearchTimer

\* reordering a loaded store while it is filtered by a search term
SpecMoveFiltered == LoadedInit /\ [][DragNext \/ FilterNext]_vars

\* the stores made of files of the dropped folder d (d/a.c and d/e/B.c) and
\* of picked files named a.c and d (a text file without extension)
TreeStores ==
  {[k \in 1..Len(q) |-> fileObj(q[k], k)] :
     q \in SeqsUpTo({EntryFile(2), EntryFile(4), FileA0,
                      [FileA0 EXCEPT !.name = NameD]}, MaxLoaded)}

\* the three views and the relative path toggle over a loaded store
SpecTree == LoadedFrom(TreeStores) /\ [][ViewNext]_vars

\* rename and content edit of a loaded store
SpecEdit == LoadedInit /\ [][EditNext]_vars

\* reordering a loaded store
SpecMove == LoadedInit /\ [][DragNext]_vars

\* the stores that hold text files, a picture and a PDF
ScanStores ==
  {[k \in 1..Len(q) |-> fileObj(q[k], k)] :
     q \in SeqsUpTo({FileA0, FileRep, FileImg, FilePdf}, MaxLoaded)}

\* search over a store of text, picture and PDF records
SpecScan == LoadedFrom(ScanStores) /\ [][SearchNext]_vars

\* rename and content edit of records that came from a dropped folder
SpecRename == LoadedFrom(DroppedStores) /\ [][EditNext]_vars

-----------------------------------------------------------------------------
(* Properties *)

\* C1: when a batch completes, the store holds as many records as when the
\* batch started plus the files of the batch that were read successfully.
C1_BatchAddsAccepted ==
  lastOp.op = "batchDone" => Len(files) = lastOp.a + lastOp.progress.processed

\* the isDuplicate relation between two records of the store
Equivalent(f, g) ==
  /\ f.name = g.name
  /\ f.size = g.size
  /\ Abs(f.lastModified - g.lastModified) < 1000

\* C2: no two records of the store have the same name, the same size and
\* modification times less than a second apart.
C2_NoEquivalentRecords ==
  \A i, j \in 1..Len(files) : i < j => ~Equivalent(files[i], files[j])

\* the batches and collections in flight
InFlight == Len(batches) + (IF drop.active THEN 1 ELSE 0)

\* C3: at most one batch or drop collection is in flight, and it is in flight
\* exactly while isProcessing is true; a handleFileSelect or handleDrop call
\* made while isProcessing is true reports "busy", starts nothing, queues
\* nothing and leaves the store as it was.
C3_SingleBatch ==
  /\ [](InFlight <= 1 /\ (isProcessing <=> InFlight = 1) /\ processingQueue = <<>>)
  /\ [][(isProcessing /\ lastOp'.op \in {"handleFileSelect", "handleDrop"} /\ lastOp'.a > 0)
          => /\ lastOp'.res = "busy"
             /\ files' = files
             /\ batches' = batches
             /\ drop' = drop
             /\ isProcessing']_vars

\* a drop is turned away while a picker batch is reading
C3_Witness ==
  /\ lastOp.op = "handleDrop"
  /\ lastOp.res = "busy"
  /\ Len(batches) = 1
  /\ batches[1].pc = "reading"

\* C4: a read that fails or times out is counted as one error and changes
\* nothing else: the loop goes on to read the next validated file, a read that
\* succeeds appends its record to the store, and the batch is over only when
\* every validated file has been read or has failed.
C4_FailureIsLocal ==
  /\ [](lastOp.op = "batchDone"
          => lastOp.progress.processed + lastOp.progress.errors = lastOp.progress.total)
  /\ [][(lastOp'.op \in {"fileDone", "batchDone"} /\ lastOp'.res \in {"error", "timeout"})
          => LET c == batches[1]
             IN  /\ files' = files
                 /\ lastOp'.progress.errors = c.errors + 1
                 /\ lastOp'.progress.processed = c.processed
                 /\ IF c.i + 1 < Len(c.validFiles)
                      THEN /\ Len(batches') = 1
                           /\ batches'[1].pc = "reading"
                           /\ batches'[1].i = c.i + 1
                           /\ batches'[1].validFiles = c.validFiles
                      ELSE lastOp'.op = "batchDone"]_vars
  /\ [][(lastOp'.op \in {"fileDone", "batchDone"} /\ lastOp'.res = "load")
          => LET c == batches[1]
             IN  /\ Len(files') = Len(files) + 1
                 /\ SubSeq(files', 1, Len(files)) = files
                 /\ files'[Len(files')].name = c.validFiles[c.i + 1].name
                 /\ lastOp'.progress.processed = c.processed + 1]_vars

\* a batch of two files is over: the first read failed, the second one is in the store
C4_Witness ==
  /\ lastOp.op = "batchDone"
  /\ lastOp.res = "load"
  /\ lastOp.progress.errors = 1
  /\ lastOp.progress.processed = 1
  /\ Len(files) = lastOp.a + 1

C6_MatchesFresh == searchMatches = findAllMatches(files, searchTerm)

\* C7: right after the confirmation of deleteAllFiles, the store and the
\* selection are empty.
C7_DeleteAllEmpties ==
  (lastOp.op = "confirmOk" /\ lastOp.res = "deleteAll")
    => files = <<>> /\ selectedFiles = {}

\* deleteAllFiles was confirmed on a store and a selection that were not empty
C7_Witness ==
  /\ lastOp.op = "confirmOk"
  /\ lastOp.res = "deleteAll"
  /\ lastOp.a > 0
  /\ lastOp.b > 0

\* C8: a reorder from i to j followed by the reorder from j to i gives back
\* the order before the two.
C8_MoveRoundTrip ==
  (/\ Len(moveLog) = 2
   /\ moveLog[2].from = moveLog[1].to
   /\ moveLog[2].to = moveLog[1].from)
    => files = moveLog[1].before

\* C9: a reorder from i to j puts the record of position i at position j,
\* shifts the records between the two by one position and leaves the others.
C9_MoveRelocates ==
  [][lastOp'.op = "handleDragDrop"
       => LET from == lastOp'.a + 1
              to == lastOp'.b + 1
          IN  /\ Len(files') = Len(files)
              /\ files'[to] = files[from]
              /\ \A k \in 1..Len(files) :
                   IF (k < from /\ k < to) \/ (k > from /\ k > to) THEN files'[k] = files[k]
                   ELSE IF from < to /\ k > from THEN files'[k - 1] = files[k]
                   ELSE IF to < from /\ k < from THEN files'[k + 1] = files[k]
                   ELSE TRUE]_vars

\* the names saveFileName has to turn down
RejectedName(value) ==
  \/ Trim(value) = <<>>
  \/ \E k \in 1..Len(value) : value[k] \in ReservedChars \cup ControlChars

\* C10: saveFileName turns down a name that is empty or holds a reserved or a
\* control character, and then leaves the store as it was.
C10_RenameRejects ==
  [][(lastOp'.op = "saveFileName" /\ RejectedName(lastOp'.b))
       => lastOp'.res # "Renamed" /\ files' = files]_vars

\* the directory part of a path: everything up to and including the last "/"
DirPrefix(path) == SubSeq(path, 1, LastIndexOf(path, "/") + 1)

\* C11: a rename that succeeds sets the name to the trimmed input, replaces
\* only the last segment of relativePath, and leaves the position of the
\* record and every other record as they were.
C11_RenameKeepsPrefix ==
  [][(lastOp'.op = "saveFileName" /\ lastOp'.res = "Renamed")
       => LET i == FindIndex(files, lastOp'.a) + 1
              newName == Trim(lastOp'.b)
          IN  /\ Len(files') = Len(files)
              /\ files'[i].id = files[i].id
              /\ files'[i].name = newName
              /\ files'[i].relativePath = DirPrefix(files[i].relativePath) \o newName
              /\ \A k \in 1..Len(files) : k # i => files'[k] = files[k]]_vars

Textual(file) == ~(file.isImage \/ file.isVideo \/ file.isAudio \/ file.isBinary)

\* C12: saveFileContent on an image record fails and leaves the store as it
\* was, and a content edit that succeeds is one of a textual record.
C12_ImageNotEditable ==
  [][(lastOp'.op = "saveFileContent" /\ FindIndex(files, lastOp'.a) # -1)
       => /\ FindFile(files, lastOp'.a).isImage
               => lastOp'.res # "Content updated" /\ files' = files
          /\ lastOp'.res = "Content updated" => Textual(FindFile(files, lastOp'.a))]_vars

\* saveFileContent was called for an image record and reported an error
C12_Witness ==
  /\ lastOp.op = "saveFileContent"
  /\ lastOp.res = "Content elements not found"
  /\ FindIndex(files, lastOp.a) # -1
  /\ FindFile(files, lastOp.a).isImage
  /\ FindFile(files, lastOp.a).content = FileImg.text

\* the handlers that have just set the search term to the empty string
TermEmptied ==
  \/ lastOp.op = "searchTimer" /\ lastOp.a = <<>>
  \/ lastOp.op = "clearSearch"
  \/ lastOp.op = "escapeKey" /\ lastOp.res = "cleared"

\* C13: once the debounce callback has run with an empty input, or clearSearch
\* has run, the term is empty, there is no match, the cursor is 0 and the
\* match navigation is hidden.
C13_EmptyTermClears ==
  TermEmptied => /\ searchTerm = <<>>
                 /\ searchMatches = <<>>
                 /\ currentMatchIndex = 0
                 /\ ~searchNavShown

\* the term was emptied while the store was not empty and there were matches
C13_Witness ==
  /\ TermEmptied
  /\ lastOp.b > 1
  /\ Len(files) > 1

\* the cursor after k calls of navigateSearch(direction) from cursor i
RECURSIVE Navigated(_, _, _, _)
Navigated(direction, i, n, k) ==
  IF k = 0 THEN i ELSE Navigated(direction, NavIndex(direction, i, n), n, k - 1)

\* C14: over N > 0 matches, N times "next" from 0 gives 0 again, "prev" from
\* 0 gives N - 1, "next" then "prev" gives the cursor back, and every call
\* moves the cursor to its cyclic neighbour; over no match a call changes
\* nothing.
C14_CursorWraps ==
  /\ [](LET n == Len(searchMatches)
            i == currentMatchIndex
        IN  n > 0 => /\ Navigated("next", 0, n, n) = 0
                     /\ NavIndex("prev", 0, n) = n - 1
                     /\ NavIndex("prev", NavIndex("next", i, n), n) = i
                     /\ NavIndex("next", NavIndex("prev", i, n), n) = i)
  /\ [][lastOp'.op = "navigateSearch"
         => LET n == Len(searchMatches)
                i == currentMatchIndex
            IN  /\ searchMatches' = searchMatches
                /\ currentMatchIndex' =
                     IF n = 0 THEN i
                     ELSE IF lastOp'.a = "next" THEN (IF i = n - 1 THEN 0 ELSE i + 1)
                     ELSE (IF i = 0 THEN n - 1 ELSE i - 1)]_vars

\* "prev" was called at cursor 0 over three matches or more and wrapped
C14_Witness ==
  /\ lastOp.op = "navigateSearch"
  /\ lastOp.a = "prev"
  /\ Len(searchMatches) >= 3
  /\ currentMatchIndex = Len(searchMatches) - 1

\* the matches the debounce callback has just computed
JustSearched == lastOp.op = "searchTimer" /\ searchTerm # <<>>

\* the matches are in store order, the name matches of a record before its
\* content matches
C15_Ordered ==
  \A j, k \in 1..Len(searchMatches) :
    j < k => /\ FindIndex(files, searchMatches[j].fileId)
                  <= FindIndex(files, searchMatches[k].fileId)
             /\ (searchMatches[j].fileId = searchMatches[k].fileId
                   /\ searchMatches[j].type = "content")
                  => searchMatches[k].type = "content"

\* every occurrence of the term in a name is a match, whatever the case of the name
C15_CaseInsensitive ==
  \A i \in 1..Len(files) : \A p \in 0..(Len(files[i].name) - 1) :
    OccursAt(ToLowerCase(files[i].name), searchTerm, p)
      <=> \E k \in 1..Len(searchMatches) :
            /\ searchMatches[k].fileId = files[i].id
            /\ searchMatches[k].type = "name"
            /\ searchMatches[k].position = p

\* only the content of a textual record gives a match
C15_TextualOnly ==
  \A k \in 1..Len(searchMatches) :
    searchMatches[k].type = "content"
      => Textual(FindFile(files, searchMatches[k].fileId))

Scanned(file) == file.contentIsString /\ ~file.isBinary

RECURSIVE DisjointFrom(_, _, _)
DisjointFrom(lowerText, term, from) ==
  LET index == IndexOfFrom(lowerText, term, from)
  IN  IF index = -1 THEN <<>>
      ELSE <<index>> \o DisjointFrom(lowerText, term, index + Len(term))

\* the offsets of the matches of one kind that searchMatches holds for a record
OffsetsOf(fileId, type) ==
  LET own == SelectSeq(searchMatches, LAMBDA m : m.fileId = fileId /\ m.type = type)
  IN  [k \in 1..Len(own) |-> own[k].position]

\* C16: the offsets getMatchPositions returns for a name or a content are
\* those of the occurrences of the term that do not overlap, from the left:
\* no two of them are closer than the length of the term.
C16_NoOverlap ==
  JustSearched =>
    \A i \in 1..Len(files) :
      /\ OffsetsOf(files[i].id, "name")
           = DisjointFrom(ToLowerCase(files[i].name), searchTerm, 0)
      /\ Scanned(files[i])
           => OffsetsOf(files[i].id, "content")
                = DisjointFrom(ToLowerCase(files[i].content), searchTerm, 0)

\* a handleFileSelect call has just run its validation loop
JustValidated ==
  lastOp.op = "handleFileSelect" /\ lastOp.res \in {"started", "nothing valid"}

\* the file passes the size and type tests that come before the duplicate test
ReachesDuplicateTest(file) ==
  /\ file.size > 0
  /\ file.size <= maxFileSize
  /\ file.type \in allowedTypes \/ isTextFile(file.name)

\* C17: a file that is equivalent to a record of the store (same name, same
\* size, modification times less than a second apart) is rejected, as a
\* duplicate when it gets as far as the duplicate test; a file that is
\* equivalent to no record of the store is not rejected as a duplicate.
C17_DuplicateDetection ==
  [][JustValidated'
       => \A k \in 1..Len(lastOp'.report.files) :
            LET file == lastOp'.report.files[k]
                reason == lastOp'.report.reasons[k]
                known == \E i \in 1..Len(files) : Equivalent(files[i], file)
            IN  /\ known => reason # "ok"
                /\ (known /\ ReachesDuplicateTest(file)) => reason = "File already exists"
                /\ ~known => reason # "File already exists"]_vars

\* a batch brought a copy of a stored record saved half a second later, which
\* was rejected, and the one saved a full second later, which was not
C17_Witness ==
  /\ JustValidated
  /\ lastOp.report.files = <<FileA5, FileA1s>>
  /\ lastOp.report.reasons = <<"File already exists", "ok">>
  /\ \E i \in 1..Len(files) : files[i].name = NameAC /\ files[i].lastModified = 0

\* the files the validation has to reject: empty, over 50MB, of a type that is
\* neither allowed nor textual, equivalent to a stored record, or with a
\* reserved character in the name
MustReject(file, store) ==
  \/ file.size = 0
  \/ file.size > 50 * 1024 * 1024
  \/ file.type \notin allowedTypes /\ ~isTextFile(file.name)
  \/ \E i \in 1..Len(store) : Equivalent(store[i], file)
  \/ \E k \in 1..Len(file.name) : file.name[k] \in ReservedChars

Reasons ==
  {"Empty file", "File too large", "Unsupported file type", "File already exists",
   "Invalid characters in filename"}

C19_UnknownIdNoOp ==
  [][lastOp'.op = "deleteFile"
       => IF lastOp'.a \in IdsOf(files)
            THEN lastOp'.res = "confirm?"
            ELSE /\ lastOp'.res = "File not found"
                 /\ files' = files
                 /\ selectedFiles' = selectedFiles
                 /\ confirmModal' = confirmModal]_vars

\* deleteFile was called again for a record that had been deleted, while
\* other records were in the store and selected
C19_Witness ==
  /\ lastOp.op = "deleteFile"
  /\ lastOp.res = "File not found"
  /\ lastOp.a <= lastId
  /\ Len(files) > 0
  /\ selectedFiles # {}
  /\ ~confirmModal.open

\* the segments of the path of record i in the tree view
PartsOf(i) == Split(TreePath(files[i], useRelativePaths))

IsPrefix(p, q) == Len(p) <= Len(q) /\ SubSeq(q, 1, Len(p)) = p

\* every record is a leaf under the segments of its path, every segment
\* before the last is a directory, and there are as many leaves as records
EveryRecordALeaf ==
  /\ \A i \in 1..Len(files) :
       /\ \E n \in tree : n.path = PartsOf(i) /\ n.isFile /\ n.fileId = files[i].id
       /\ \A k \in 1..(Len(PartsOf(i)) - 1) :
            \E n \in tree : n.path = SubSeq(PartsOf(i), 1, k) /\ ~n.isFile
  /\ Cardinality({n \in tree : n.isFile}) = Len(files)

\* the tree view shows the tree of the whole store
TreeShown == currentView = "tree" /\ Len(files) > 0 /\ searchTerm = <<>>

PathsApart ==
  \A i, j \in 1..Len(files) : i # j => ~IsPrefix(PartsOf(i), PartsOf(j))

WellOrdered(q) ==
  \A i, j \in 1..Len(q) :
    i < j => /\ ~(q[i].isFile /\ ~q[j].isFile)
             /\ q[i].isFile = q[j].isFile
                  => LocaleBefore(q[i].path[Len(q[i].path)], q[j].path[Len(q[j].path)])

\* the root and the directories of a tree
Levels(t) == {<<>>} \cup {n.path : n \in {m \in t : ~m.isFile}}

\* the lines of a tree text that name the entries of one level
LinesOf(text, path) ==
  SelectSeq(text, LAMBDA l : Len(l.path) = Len(path) + 1
                             /\ SubSeq(l.path, 1, Len(path)) = path)

HtmlTreeOrdered ==
  currentView = "tree" => \A p \in Levels(tree) : WellOrdered(renderTreeNode(tree, p))

TextTreeOrdered ==
  lastOp.op = "copyTreeStructure"
    => \A p \in {<<>>} \cup {l.path : l \in {lastOp.clipboard[k] : k \in 1..Len(lastOp.clipboard)}} :
         WellOrdered(LinesOf(lastOp.clipboard, p))

\* C21: the tree view and the copied tree text list, at every level, the
\* directories before the files and the entries of a kind in the order of
\* their names.
C21_TreeOrder == HtmlTreeOrdered /\ TextTreeOrdered

\* the records whose path goes through the slot of `path`
Through(path) == {i \in 1..Len(files) : IsPrefix(path, PartsOf(i))}

\* the node is what record i asks for in the slot: a leaf with the record
\* when the slot is at the end of its path, else a directory
Requires(i, n) ==
  /\ n.isFile = (PartsOf(i) = n.path)
  /\ n.isFile => n.fileId = files[i].id

IngestionStep ==
  lastOp'.op \in {"handleFileSelect", "fileDone", "batchDone", "handleDrop",
                  "entryCallback", "entryError", "dropCollected"}

\* the record was built from the file
RecordOf(rec, file) ==
  /\ rec.name = file.name
  /\ rec.size = file.size
  /\ rec.lastModified = file.lastModified
  /\ rec.content = file.text

\* the records come from files of the list, in the order of the list
RECURSIVE InOrderOf(_, _)
InOrderOf(recs, fileList) ==
  IF recs = <<>> THEN TRUE
  ELSE IF fileList = <<>> THEN FALSE
  ELSE IF RecordOf(Head(recs), Head(fileList))
         /\ InOrderOf(Tail(recs), Tail(fileList)) THEN TRUE
  ELSE InOrderOf(recs, Tail(fileList))

\* C23: a read that completes appends the record of its file at the end of
\* the store, before the next file of the batch is read; no step of an
\* ingestion moves or removes a record; and when a batch is over the store is
\* what it was when the batch started, followed by the records of the batch
\* in the order their files were submitted.
C23_AppendInOrder ==
  [][/\ (lastOp'.op \in {"fileDone", "batchDone"} /\ lastOp'.res = "load")
          => /\ Len(batches) = 1
             /\ batches[1].pc = "reading"
             /\ Len(files') = Len(files) + 1
             /\ SubSeq(files', 1, Len(files)) = files
             /\ RecordOf(files'[Len(files')], batches[1].validFiles[batches[1].i + 1])
     /\ IngestionStep => IsPrefix(files, files')
     /\ lastOp'.op = "batchDone"
          => /\ files' = SubSeq(files', 1, lastOp'.a) \o lastOp'.progress.processedFiles
             /\ Len(files') = lastOp'.a + Len(lastOp'.progress.processedFiles)
             /\ InOrderOf(lastOp'.progress.processedFiles, batches[1].validFiles)]_vars

\* C24: the records of the store have pairwise distinct ids.
C24_IdsDistinct ==
  \A i, j \in 1..Len(files) : i # j => files[i].id # files[j].id

\* C25: the validation loop rejects no file of a kind of the README for its
\* type.
C25_ReadmeKindsPass ==
  JustValidated
    => \A k \in 1..Len(lastOp.report.files) :
         lastOp.report.files[k] \in ReadmeFiles
           => lastOp.report.reasons[k] # "Unsupported file type"

\* clearSearch() has just run, from the clear button or from the Escape key
JustCleared ==
  \/ lastOp.op = "clearSearch"
  \/ lastOp.op = "escapeKey" /\ lastOp.res = "cleared"

\* C26: after clearSearch, a step that is not an input event of the search
\* box leaves searchTerm and searchMatches empty.
C26_ClearedStaysCleared ==
  [][(JustCleared /\ lastOp'.op # "handleSearch")
       => searchTerm' = <<>> /\ searchMatches' = <<>>]_vars

\* C27: accepting the confirmation of deleteFile(X) removes the record of id
\* X and nothing else, and keeps the order of the others.
C27_ConfirmRemovesX ==
  [][(confirmModal.open /\ confirmModal.kind = "deleteFile" /\ lastOp'.op = "confirmOk")
       => files' = SelectSeq(files, LAMBDA f : f.id # confirmModal.fileId)]_vars

\* the position of the record of the id in the store
PositionOf(store, id) == CHOOSE k \in 1..Len(store) : store[k].id = id

\* the stores hold the same records
SameRecords(s, t) ==
  /\ Len(s) = Len(t)
  /\ \A k \in 1..Len(s) : \E h \in 1..Len(t) : t[h] = s[k]
  /\ \A h \in 1..Len(t) : \E k \in 1..Len(s) : s[k] = t[h]

\* C28: a drop of a dragged block that is still in the list puts its record
\* where the record of the target block was, and the store holds the same
\* records as before; with or without a search term.
C28_DropMovesDragged ==
  [][(lastOp'.op = "handleDragDrop" /\ draggedElement = "attached")
       => LET draggedId == dom[draggedIndex + 1].id
              targetId == dom[lastOp'.b + 1].id
          IN  /\ files'[PositionOf(files, targetId)].id = draggedId
              /\ SameRecords(files, files')]_vars

\* C29: every id of the selection is the id of a record of the store.
C29_SelectionInStore ==
  selectedFiles \subseteq {files[k].id : k \in 1..Len(files)}

\* the confirmation of deleteFile was accepted with several records selected,
\* and others are still selected
C29_Witness ==
  /\ lastOp.op = "confirmOk"
  /\ lastOp.res = "deleteFile"
  /\ lastOp.a > 1
  /\ Cardinality(selectedFiles) = lastOp.a - 1
  /\ Len(files) = lastOp.b - 1

\* C30: the cursor is 0 when there is no match and the index of a match
\* otherwise.
C30_CursorInRange ==
  IF searchMatches = <<>> THEN currentMatchIndex = 0
  ELSE 0 <= currentMatchIndex /\ currentMatchIndex < Len(searchMatches)

\* the cursor was moved off the first match and the store was emptied after
\* that, with the matches still listed
C30_Witness ==
  /\ lastOp.op = "confirmOk"
  /\ files = <<>>
  /\ currentMatchIndex > 0
  /\ currentMatchIndex = Len(searchMatches) - 1

====
